---- MODULE Spec2Model ----
(***************************************************************************)
(* A model of app.py: the process-wide record store (job_data), its lazy   *)
(* loader load_job_data, and the query handlers that read the store.       *)
(*                                                                         *)
(* Conventions.                                                            *)
(*  - A score is an integer number of tenths (299 stands for 29.9), so that *)
(*    round(x, 1) is rounding to an integer.  Rounding is to the nearest    *)
(*    tenth, ties to even, computed on exact rationals; binary floating     *)
(*    point representation error is not modelled.                           *)
(*  - A missing cell (pandas NaN) of a name column is the string NaN; a     *)
(*    raw score cell is a sequence of length at most one, empty when the    *)
(*    cell does not coerce to a number.                                     *)
(*  - A job title is a natural number standing for a distinct string.       *)
(*  - The sheet has the columns the handlers read unconditionally           *)
(*    (Job_Title, Job_Description, level_1..4_name, the scores, the task    *)
(*    payload) and no Sector column; a sheet lacking one of them is an      *)
(*    unreadable source.                                                    *)
(***************************************************************************)
EXTENDS Integers, Sequences, FiniteSets, TLC

VARIABLES
    file,       \* the backing source job_data.xlsx, as the next read sees it
    job_data,   \* the global record store
    pc,         \* per request thread: its position inside load_job_data
    df,         \* per request thread: the local data frame of load_job_data
    ret,        \* what the load_job_data call that returned last returned
    loadCount,  \* history: how many times line 26 (job_data = df) was executed
    resp        \* the last response a query handler returned

vars == <<file, job_data, pc, df, ret, loadCount, resp>>

----------------------------------------------------------------------------
(* Bounds of the model *)

NumThreads == 2
MaxMainRows == 1
MaxRiskRows == 3
MaxJobs == 7
MaxPage == 3
MaxPerPage == 4
MaxTreeRows == 3
MaxTaskRows == 2

(* Program constants *)

DefaultLevel == 4
DefaultPage == 1
DefaultPerPage == 4
LowRiskBelow == 300
HighRiskFrom == 600
QuadrantThreshold == 50

----------------------------------------------------------------------------
(* Values *)

NaN == "NaN"
Absent == "<absent>"

Threads == 1..NumThreads

\* job_data is None until line 26 assigns a data frame to it
None == [loaded |-> FALSE, rows |-> <<>>]

Frame(rows) == [loaded |-> TRUE, rows |-> rows]

\* The schema's taxonomy columns level_1_name .. level_4_name
LevelColumns == 1..4

Range(s) == {s[i] : i \in DOMAIN s}

RECURSIVE SumSeq(_)
SumSeq(s) == IF s = <<>> THEN 0 ELSE Head(s) + SumSeq(Tail(s))

RECURSIVE Flatten(_)
Flatten(ss) == IF ss = <<>> THEN <<>> ELSE Head(ss) \o Flatten(Tail(ss))

\* All sequences over S of length at most n
SeqsUpTo(S, n) == UNION {[1..k -> S] : k \in 0..n}

Abs(x) == IF x < 0 THEN -x ELSE x

\* round(num/den) to the nearest integer, ties to even; den > 0
RoundHalfEven(num, den) ==
    LET q == num \div den
        r == num - q * den
    IN  IF 2 * r < den THEN q
        ELSE IF 2 * r > den THEN q + 1
        ELSE IF q % 2 = 0 THEN q ELSE q + 1

\* Series.mean() followed by round(., 1); the mean of no value is NaN
MeanRounded(xs) ==
    IF xs = <<>> THEN NaN ELSE RoundHalfEven(SumSeq(xs), Len(xs))

----------------------------------------------------------------------------
(* load_job_data *)

\* Line 24: a payload that is a string starting with '[' goes to json.loads,
\* which raises on text that is not JSON; anything else becomes [].
ParsePayload(p) == IF p.kind = "list" THEN p.tasks ELSE <<>>

PayloadRaises(p) == p.kind = "badjson"

\* Lines 19-21: rows whose scores do not both coerce to a number are dropped
Numeric(raw) == raw.auto # <<>> /\ raw.manual # <<>>

ProcessRow(raw) ==
    [title |-> raw.title, l |-> raw.l, auto |-> raw.auto[1],
     manual |-> raw.manual[1], tasks |-> ParsePayload(raw.payload)]

RECURSIVE ProcessRows(_)
ProcessRows(raws) ==
    IF raws = <<>> THEN <<>>
    ELSE (IF Numeric(Head(raws)) THEN <<ProcessRow(Head(raws))>> ELSE <<>>)
         \o ProcessRows(Tail(raws))

\* Lines 17-25 raise (and line 29 catches) when the source cannot be read or a
\* surviving row's payload is not JSON
LoadRaises(f) ==
    \/ ~f.readable
    \/ \E i \in DOMAIN f.rows : Numeric(f.rows[i]) /\ PayloadRaises(f.rows[i].payload)

\* Lines 15-16: the guard of load_job_data
AlreadyLoaded(jd) == jd.loaded

\* Lines 14-16: the thread enters load_job_data and tests the global
LoadCheck(t) ==
    /\ pc[t] = "idle"
    /\ IF AlreadyLoaded(job_data)
       THEN /\ ret' = "True"
            /\ pc' = pc
       ELSE /\ pc' = [pc EXCEPT ![t] = "read"]
            /\ ret' = ret
    /\ UNCHANGED <<file, job_data, df, loadCount, resp>>

\* Lines 18-25, and 29-31 when they raise
LoadRead(t) ==
    /\ pc[t] = "read"
    /\ IF LoadRaises(file)
       THEN /\ pc' = [pc EXCEPT ![t] = "idle"]
            /\ ret' = "False"
            /\ df' = df
       ELSE /\ pc' = [pc EXCEPT ![t] = "assign"]
            /\ df' = [df EXCEPT ![t] = ProcessRows(file.rows)]
            /\ ret' = ret
    /\ UNCHANGED <<file, job_data, loadCount, resp>>

\* Lines 26-28
LoadAssign(t) ==
    /\ pc[t] = "assign"
    /\ job_data' = Frame(df[t])
    /\ loadCount' = loadCount + 1
    /\ pc' = [pc EXCEPT ![t] = "idle"]
    /\ ret' = "True"
    /\ df' = [df EXCEPT ![t] = <<>>]
    /\ UNCHANGED <<file, resp>>

----------------------------------------------------------------------------
(* Responses *)

NoResponse == [op |-> "none", status |-> 0]

\* jsonify({'error': 'No data available'}), 500
NoDataResponse(op, req) ==
    [op |-> op, req |-> req, status |-> 500, error |-> "No data available"]

\* An exception no handler catches: Flask's 500 Internal Server Error page
Unhandled(op, req, exc) ==
    [op |-> op, req |-> req, status |-> 500, error |-> "Internal Server Error",
     exception |-> exc]

ErrorResponse(op, req, code, msg) ==
    [op |-> op, req |-> req, status |-> code, error |-> msg]

Ok(op, req, body) == [op |-> op, req |-> req, status |-> 200, body |-> body]

\* resp holds the response of the one query that is being observed: a handler
\* runs when no response is pending, and Respond hands the response over
Serving == resp = NoResponse

Respond ==
    /\ resp # NoResponse
    /\ resp' = NoResponse
    /\ UNCHANGED <<file, job_data, pc, df, ret, loadCount>>

----------------------------------------------------------------------------
(* Request parameters and the filter every filtered handler repeats *)

\* request.args.get('category'): absent, or empty, is falsy
NoCategory == ""

\* request.args.get('level', '4'): an absent parameter is the default level.
\* The parameter is <<>> when absent and <<n>> when given.
LevelArg(req) == IF req.level = <<>> THEN DefaultLevel ELSE req.level[1]

\* f'level_{level}_name' in job_data.columns
LevelKnown(level) == level \in LevelColumns

\* job_data[level_column] == category: a missing cell equals nothing
CellIs(row, level, category) == row.l[level] # NaN /\ row.l[level] = category

\* Lines 145-149 (and 175-179, 261-265, 314-318)
FilteredData(rows, req) ==
    IF req.category # NoCategory /\ LevelKnown(LevelArg(req))
    THEN LET Keep(r) == CellIs(r, LevelArg(req), req.category)
         IN  SelectSeq(rows, Keep)
    ELSE rows

\* Series.nunique(): the distinct values that are not missing
NUnique(rows, level) == Cardinality({rows[i].l[level] : i \in DOMAIN rows} \ {NaN})

AutoScores(rows) == [i \in DOMAIN rows |-> rows[i].auto]

ManualScores(rows) == [i \in DOMAIN rows |-> rows[i].manual]

\* How many elements of s satisfy Test
CountIf(s, Test(_)) == Len(SelectSeq(s, Test))

----------------------------------------------------------------------------
(* /api/stats and /api/levels *)

StatsBody(rows) ==
    [total_jobs |-> Len(rows),
     unique_level_4_categories |-> NUnique(rows, 4),
     sector_count |-> 0,
     avg_auto_score |-> MeanRounded(AutoScores(rows)),
     avg_manual_score |-> MeanRounded(ManualScores(rows))]

get_stats ==
    /\ Serving
    /\ resp' = IF ~AlreadyLoaded(job_data) THEN NoDataResponse("stats", <<>>)
               ELSE Ok("stats", <<>>, StatsBody(job_data.rows))
    /\ UNCHANGED <<file, job_data, pc, df, ret, loadCount>>

LevelsBody(rows) ==
    [i \in LevelColumns |-> [level |-> i, count |-> NUnique(rows, i)]]

get_available_levels ==
    /\ Serving
    /\ resp' = IF ~AlreadyLoaded(job_data) THEN NoDataResponse("levels", <<>>)
               ELSE Ok("levels", <<>>, LevelsBody(job_data.rows))
    /\ UNCHANGED <<file, job_data, pc, df, ret, loadCount>>

----------------------------------------------------------------------------
(* /api/categories *)

\* The distinct values, missing excluded, of a level's column
Categories(rows, level) == {rows[i].l[level] : i \in DOMAIN rows} \ {NaN}

CategoryCount(rows, level, c) ==
    Cardinality({i \in DOMAIN rows : rows[i].l[level] = c})

\* Series.value_counts(): one entry per distinct value, by descending count.
\* The order among equal counts is the sort's, which pandas does not fix: every
\* order of the ties is an outcome.
ValueCounts(rows, level) ==
    LET cats == Categories(rows, level)
        n == Cardinality(cats)
    IN  {[i \in 1..n |-> [name |-> o[i], count |-> CategoryCount(rows, level, o[i])]] :
            o \in {o \in [1..n -> cats] :
                     /\ \A i, j \in 1..n : i # j => o[i] # o[j]
                     /\ \A i, j \in 1..n :
                          i < j => CategoryCount(rows, level, o[i])
                                     >= CategoryCount(rows, level, o[j])}}

\* Lines 83-86: a level whose column the frame lacks is reported, with 400
get_categories(req) ==
    /\ Serving
    /\ IF ~AlreadyLoaded(job_data)
       THEN resp' = NoDataResponse("categories", req)
       ELSE IF ~LevelKnown(LevelArg(req))
       THEN resp' = ErrorResponse("categories", req, 400, "Level not available")
       ELSE \E body \in ValueCounts(job_data.rows, LevelArg(req)) :
                resp' = Ok("categories", req, body)
    /\ UNCHANGED <<file, job_data, pc, df, ret, loadCount>>

----------------------------------------------------------------------------
(* /api/risk_distribution *)

IsLowRisk(score) == score < LowRiskBelow

\* The lower boundary taken as exclusive
IsMediumRisk_exclusive(score) == score > LowRiskBelow /\ score < HighRiskFrom

IsMediumRisk(score) == score >= LowRiskBelow /\ score < HighRiskFrom

IsHighRisk(score) == score >= HighRiskFrom

\* Lines 151-160
RiskBody(view) ==
    LET Low(r) == IsLowRisk(r.auto)
        Medium(r) == IsMediumRisk(r.auto)
        High(r) == IsHighRisk(r.auto)
    IN  [low_risk |-> CountIf(view, Low),
         medium_risk |-> CountIf(view, Medium),
         high_risk |-> CountIf(view, High),
         total |-> Len(view)]

get_risk_distribution(req) ==
    /\ Serving
    /\ resp' = IF ~AlreadyLoaded(job_data)
               THEN NoDataResponse("risk_distribution", req)
               ELSE Ok("risk_distribution", req,
                       RiskBody(FilteredData(job_data.rows, req)))
    /\ UNCHANGED <<file, job_data, pc, df, ret, loadCount>>

----------------------------------------------------------------------------
(* /api/jobs *)

\* A Python slice bound on a sequence of length n: a negative index counts from
\* the end, and both ends are clipped to the sequence
SliceBound(i, n) ==
    IF i < 0 THEN (IF i + n < 0 THEN 0 ELSE i + n) ELSE (IF i > n THEN n ELSE i)

\* DataFrame.iloc[start:end]
ILocSlice(rows, start, end) ==
    LET lo == SliceBound(start, Len(rows))
        hi == SliceBound(end, Len(rows))
    IN  IF lo >= hi THEN <<>> ELSE SubSeq(rows, lo + 1, hi)

\* Lines 186-187: int(request.args.get('page', 1)) and
\* int(request.args.get('per_page', 4)); <<>> is an absent parameter
PageArg(req) == IF req.page = <<>> THEN DefaultPage ELSE req.page[1]

PerPageArg(req) == IF req.per_page = <<>> THEN DefaultPerPage ELSE req.per_page[1]

\* The page number taken as zero-based
StartIdx_zeroBased(page, per_page) == page * per_page

\* Line 189
StartIdx(page, per_page) == (page - 1) * per_page

\* Line 190
EndIdx(page, per_page) == StartIdx(page, per_page) + per_page

\* Line 216
HasMore(page, per_page, n) == EndIdx(page, per_page) < n

\* Lines 195-203; row.get of a column the frame lacks is ''
JobDict(row, level) ==
    [Job_Title |-> row.title,
     level_name |-> IF LevelKnown(level) THEN row.l[level] ELSE "",
     auto_score |-> row.auto, manual_score |-> row.manual,
     automatability_tasks |-> row.tasks]

\* Lines 206-210
CategoryStats(view) ==
    [total_jobs |-> Len(view),
     avg_auto_score |-> IF view # <<>> THEN MeanRounded(AutoScores(view)) ELSE 0,
     avg_manual_score |-> IF view # <<>> THEN MeanRounded(ManualScores(view)) ELSE 0]

\* Lines 186-218
JobsPage(view, req) ==
    LET page == PageArg(req)
        per_page == PerPageArg(req)
        paginated == ILocSlice(view, StartIdx(page, per_page), EndIdx(page, per_page))
    IN  [jobs |-> [i \in DOMAIN paginated |-> JobDict(paginated[i], LevelArg(req))],
         page |-> page, per_page |-> per_page,
         has_more |-> HasMore(page, per_page, Len(view)),
         category_stats |-> CategoryStats(view)]

\* Line 183
JobsAll(view) ==
    [i \in DOMAIN view |-> [auto_score |-> view[i].auto, manual_score |-> view[i].manual]]

get_jobs(req) ==
    /\ Serving
    /\ resp' = IF ~AlreadyLoaded(job_data) THEN NoDataResponse("jobs", req)
               ELSE LET view == FilteredData(job_data.rows, req)
                    IN  IF req.fetch_all THEN Ok("jobs", req, JobsAll(view))
                        ELSE Ok("jobs", req, JobsPage(view, req))
    /\ UNCHANGED <<file, job_data, pc, df, ret, loadCount>>

----------------------------------------------------------------------------
(* /api/job/<job_title> *)

\* Series.empty of a row of the frame: the row has the frame's columns, so it
\* is never empty
RowEmpty(row) == FALSE

\* Lines 229-234
ProcessedTask(task) ==
    [task EXCEPT !.imp = IF task.imp = Absent THEN "Not specified" ELSE task.imp]

\* Lines 236-247
JobDetail(row) ==
    [Job_Title |-> row.title, level_names |-> row.l,
     auto_score |-> row.auto, manual_score |-> row.manual,
     automatability_tasks |-> [i \in DOMAIN row.tasks |-> ProcessedTask(row.tasks[i])]]

\* Lines 225-250: .iloc[0] of an empty selection raises IndexError, which
\* nothing catches
get_job_detail(job_title) ==
    /\ Serving
    /\ resp' =
         IF ~AlreadyLoaded(job_data) THEN NoDataResponse("job_detail", job_title)
         ELSE LET Titled(r) == r.title = job_title
                  selection == SelectSeq(job_data.rows, Titled)
              IN  IF selection = <<>>
                  THEN Unhandled("job_detail", job_title, "IndexError")
                  ELSE IF ~RowEmpty(selection[1])
                  THEN Ok("job_detail", job_title, JobDetail(selection[1]))
                  ELSE ErrorResponse("job_detail", job_title, 404, "Job not found")
    /\ UNCHANGED <<file, job_data, pc, df, ret, loadCount>>

----------------------------------------------------------------------------
(* /api/task_analysis *)

\* Line 293: most_common(10)
TopReasons == 10

\* str.lower(), on the spellings the data uses
Lower(x) ==
    CASE x = "Primary" -> "primary"
      [] x = "PRIMARY" -> "primary"
      [] x = "Secondary" -> "secondary"
      [] x = "Ancillary" -> "ancillary"
      [] OTHER -> x

\* q.replace('_', ' ').title(), on the reason codes the data uses
ReasonTitle(q) ==
    CASE q = "routine_work" -> "Routine Work"
      [] q = "Routine_Work" -> "Routine Work"
      [] q = "human_judgement" -> "Human Judgement"
      [] OTHER -> q

TaskTypes == <<"primary", "secondary", "ancillary">>

\* Lines 267 and 322: every task of every row, in row order
AllTasks(view) == Flatten([i \in DOMAIN view |-> view[i].tasks])

IsAutomatable(task) == task.flag = "Automatable"

\* pd.DataFrame(all_tasks) has a column for a key iff some task has the key
HasImportanceColumn(tasks) == \E i \in DOMAIN tasks : tasks[i].imp # Absent

HasQuestionColumn(tasks) == \E i \in DOMAIN tasks : tasks[i].question # <<>>

\* tasks_df[tasks_df['importance_classification'].str.lower() == task_type];
\* a task without the key is a missing cell, which equals nothing
OfType(tasks, task_type) ==
    LET Is(task) == task.imp # Absent /\ Lower(task.imp) = task_type
    IN  SelectSeq(tasks, Is)

\* round(part / total * 100, 1), in tenths of a percent; total > 0
Percentage(part, total) == RoundHalfEven(part * 1000, total)

\* Lines 279-287: a type is entered only when some task has it
AutomationByType(tasks) ==
    LET present == {t \in Range(TaskTypes) : OfType(tasks, t) # <<>>}
    IN  [t \in present |->
            LET type_df == OfType(tasks, t)
                total == Len(type_df)
            IN  [automation_percentage |->
                    IF total > 0 THEN Percentage(CountIf(type_df, IsAutomatable), total)
                    ELSE 0]]

CountOf(s, x) == Cardinality({i \in DOMAIN s : s[i] = x})

FirstIndex(s, x) == CHOOSE i \in DOMAIN s : s[i] = x /\ \A j \in 1..(i - 1) : s[j] # x

\* Counter(s).most_common(n): by descending count, equal counts in the order
\* they were first encountered
MostCommon(s, n) ==
    LET k == Cardinality(Range(s))
        o == CHOOSE o \in [1..k -> Range(s)] :
                \A i, j \in 1..k :
                    i < j => \/ CountOf(s, o[i]) > CountOf(s, o[j])
                             \/ /\ CountOf(s, o[i]) = CountOf(s, o[j])
                                /\ FirstIndex(s, o[i]) < FirstIndex(s, o[j])
    IN  [i \in 1..(IF k < n THEN k ELSE n) |->
            [reason |-> o[i], count |-> CountOf(s, o[i])]]

\* Lines 290-293: the tasks lacking the key are dropped
GetTopReasons(tasks) ==
    LET Has(task) == task.question # <<>>
        valid == SelectSeq(tasks, Has)
        lists == [i \in DOMAIN valid |-> valid[i].question[1]]
        flat == Flatten(lists)
    IN  MostCommon([i \in DOMAIN flat |-> ReasonTitle(flat[i])], TopReasons)

\* Line 270
EmptyAnalysis == [total_tasks |-> 0]

\* Lines 275-304
AnalysisBody(view, tasks) ==
    LET automatable_count == CountIf(tasks, IsAutomatable)
        NotAutomatable(task) == ~IsAutomatable(task)
    IN  [total_tasks |-> Len(tasks), total_jobs |-> Len(view),
         automation_status |->
            [automatable |-> automatable_count,
             non_automatable |-> Len(tasks) - automatable_count],
         task_type_distribution |->
            [t \in Range(TaskTypes) |-> Len(OfType(tasks, t))],
         automation_by_type |-> AutomationByType(tasks),
         automation_drivers |-> GetTopReasons(SelectSeq(tasks, IsAutomatable)),
         automation_barriers |-> GetTopReasons(SelectSeq(tasks, NotAutomatable))]

\* Lines 256-304.  Indexing tasks_df by a column it lacks raises KeyError
\* (line 276 for importance_classification, line 291 for question), which
\* nothing catches.
get_task_analysis(req) ==
    /\ Serving
    /\ resp' =
         IF ~AlreadyLoaded(job_data) THEN NoDataResponse("task_analysis", req)
         ELSE LET view == FilteredData(job_data.rows, req)
                  all_tasks == AllTasks(view)
              IN  IF all_tasks = <<>> THEN Ok("task_analysis", req, EmptyAnalysis)
                  ELSE IF ~HasImportanceColumn(all_tasks)
                  THEN Unhandled("task_analysis", req, "KeyError")
                  ELSE IF ~HasQuestionColumn(all_tasks)
                  THEN Unhandled("task_analysis", req, "KeyError")
                  ELSE Ok("task_analysis", req, AnalysisBody(view, all_tasks))
    /\ UNCHANGED <<file, job_data, pc, df, ret, loadCount>>

----------------------------------------------------------------------------
(* /api/automation_matrix *)

\* The category names of the data, in the order groupby sorts its keys
SortedNames == <<"A", "B", "C">>

\* Lines 334-337; the percentages are part/total * 100, compared exactly
Quadrant(auto, total, primary_auto, primary_total) ==
    LET overall_lt == auto * 100 < QuadrantThreshold * total
        \* line 330: primary_auto_pct stays 0 when there is no primary task
        primary_ge == /\ primary_total > 0
                      /\ primary_auto * 100 >= QuadrantThreshold * primary_total
    IN  IF overall_lt /\ primary_ge THEN "upper_left"
        ELSE IF ~overall_lt /\ primary_ge THEN "upper_right"
        ELSE IF overall_lt /\ ~primary_ge THEN "lower_left"
        ELSE "lower_right"

\* Lines 325-345, for one group whose tasks have the importance column
MatrixEntry(cat, group) ==
    LET tasks == AllTasks(group)
        total_tasks == Len(tasks)
        auto == CountIf(tasks, IsAutomatable)
        primary == OfType(tasks, "primary")
        primary_auto == CountIf(primary, IsAutomatable)
    IN  [category |-> cat,
         overall_automation_pct |-> Percentage(auto, total_tasks),
         primary_automation_pct |->
            IF primary # <<>> THEN Percentage(primary_auto, Len(primary)) ELSE 0,
         total_tasks |-> total_tasks, primary_tasks |-> Len(primary),
         total_jobs |-> Len(group),
         quadrant |-> Quadrant(auto, total_tasks, primary_auto, Len(primary))]

\* groupby('level_4_name'): the rows of one category; rows whose level-4 cell
\* is missing are in no group
Level4Group(view, cat) ==
    LET In(r) == CellIs(r, 4, cat)
    IN  SelectSeq(view, In)

\* Line 323: the groups that get past the `continue`, in key order
GroupsWithTasks(view) ==
    LET Kept(cat) == AllTasks(Level4Group(view, cat)) # <<>>
    IN  SelectSeq(SortedNames, Kept)

\* Lines 320-346.  Line 329 raises KeyError for a group none of whose tasks
\* has an importance_classification; nothing catches it.
get_automation_matrix(req) ==
    /\ Serving
    /\ resp' =
         IF ~AlreadyLoaded(job_data) THEN NoDataResponse("automation_matrix", req)
         ELSE LET view == FilteredData(job_data.rows, req)
                  cats == GroupsWithTasks(view)
              IN  IF \E i \in DOMAIN cats :
                        ~HasImportanceColumn(AllTasks(Level4Group(view, cats[i])))
                  THEN Unhandled("automation_matrix", req, "KeyError")
                  ELSE Ok("automation_matrix", req,
                          [i \in DOMAIN cats |->
                              MatrixEntry(cats[i], Level4Group(view, cats[i]))])
    /\ UNCHANGED <<file, job_data, pc, df, ret, loadCount>>

----------------------------------------------------------------------------
(* /api/hierarchy_tree_data *)

\* Lines 357-362: groupby over the four level columns.  A row with a missing
\* cell in any of the four key columns is in no group (groupby drops missing
\* keys), so every group key is a complete path.
GroupKeys(rows) ==
    {rows[i].l : i \in {j \in DOMAIN rows : \A k \in LevelColumns : rows[j].l[k] # NaN}}

GroupOf(rows, key) ==
    LET In(r) == r.l = key
    IN  SelectSeq(rows, In)

\* Lines 374-393: the path of the node a grouped row reaches after the first k
\* of its levels 1..3; a missing name is skipped by the `continue`
RECURSIVE NodePath(_, _)
NodePath(key, k) ==
    IF k = 0 THEN <<>>
    ELSE NodePath(key, k - 1) \o (IF key[k] = NaN THEN <<>> ELSE <<key[k]>>)

\* Lines 365-403: the tree before the roll-up.  inner holds the paths of the
\* nodes that carry a children list (the root is <<>>), leaf maps the path of
\* each level-4 leaf to the value and job_count it is created with.  job_count
\* is the count of the group's Job_Title cells; every row of the modelled
\* sheets has a title, so it is the size of the group.
BuildTree(rows) ==
    LET keys == GroupKeys(rows)
        leafKeys == {key \in keys : key[4] # NaN}
        LeafPath(key) == NodePath(key, 3) \o <<key[4]>>
        KeyAt(p) == CHOOSE key \in leafKeys : LeafPath(key) = p
    IN  [inner |-> {<<>>} \cup {NodePath(key, k) : key \in keys, k \in 1..3},
         leaf |-> [p \in {LeafPath(key) : key \in leafKeys} |->
                     LET group == GroupOf(rows, KeyAt(p))
                     IN  [value |-> RoundHalfEven(SumSeq(AutoScores(group)), Len(group)),
                          job_count |-> Len(group)]]]

\* node['children']
Children(tree, p) ==
    {q \in tree.inner \cup DOMAIN tree.leaf :
        Len(q) = Len(p) + 1 /\ SubSeq(q, 1, Len(p)) = p}

\* Lines 406-425.  The result is what the call returns, and stored tells
\* whether lines 422-423 wrote value and job_count into the node.
RECURSIVE CalculateParentAverages(_, _)
RECURSIVE SumChildren(_, _)
CalculateParentAverages(tree, p) ==
    IF p \in DOMAIN tree.leaf
    THEN [value |-> tree.leaf[p].value, job_count |-> tree.leaf[p].job_count,
          stored |-> TRUE]
    ELSE IF Children(tree, p) = {}
    THEN [value |-> 0, job_count |-> 0, stored |-> FALSE]
    ELSE LET t == SumChildren(tree, Children(tree, p))
         IN  [value |-> IF t.total_jobs > 0
                        THEN RoundHalfEven(t.total_weighted_score, t.total_jobs)
                        ELSE 0,
              job_count |-> t.total_jobs, stored |-> TRUE]

\* Lines 411-419
SumChildren(tree, cs) ==
    IF cs = {} THEN [total_weighted_score |-> 0, total_jobs |-> 0]
    ELSE LET c == CHOOSE c \in cs : TRUE
             rest == SumChildren(tree, cs \ {c})
             r == CalculateParentAverages(tree, c)
         IN  IF r.job_count > 0
             THEN [total_weighted_score |->
                       rest.total_weighted_score + r.value * r.job_count,
                   total_jobs |-> rest.total_jobs + r.job_count]
             ELSE rest

\* Line 428 and the tree line 430 returns: each node with the value and
\* job_count it then has; has tells whether the node has the two keys
RolledUp(tree) ==
    [p \in tree.inner \cup DOMAIN tree.leaf |->
        LET r == CalculateParentAverages(tree, p)
        IN  [has |-> r.stored, value |-> r.value, job_count |-> r.job_count,
             is_leaf |-> p \in DOMAIN tree.leaf]]

\* The handler without its line 352 guard: grouping None raises
get_hierarchy_tree_data_unguarded ==
    /\ Serving
    /\ resp' = IF ~AlreadyLoaded(job_data)
               THEN Unhandled("hierarchy_tree", <<>>, "AttributeError")
               ELSE Ok("hierarchy_tree", <<>>, RolledUp(BuildTree(job_data.rows)))
    /\ UNCHANGED <<file, job_data, pc, df, ret, loadCount>>

get_hierarchy_tree_data ==
    /\ Serving
    /\ resp' = IF ~AlreadyLoaded(job_data) THEN NoDataResponse("hierarchy_tree", <<>>)
               ELSE Ok("hierarchy_tree", <<>>, RolledUp(BuildTree(job_data.rows)))
    /\ UNCHANGED <<file, job_data, pc, df, ret, loadCount>>

----------------------------------------------------------------------------
(* The backing source: the sheets the model reads *)

Task(flag, imp, question) == [flag |-> flag, imp |-> imp, question |-> question]

TaskList(tasks) == [kind |-> "list", tasks |-> tasks]

\* A cell that is missing, not a string, or does not start with '['
NotAList == [kind |-> "notlist", tasks |-> <<>>]

\* A string that starts with '[' and is not JSON
BadJson == [kind |-> "badjson", tasks |-> <<>>]

Raw(title, l, auto, manual, payload) ==
    [title |-> title, l |-> l, auto |-> auto, manual |-> manual, payload |-> payload]

Sheet(rows) == [readable |-> TRUE, rows |-> rows]

\* job_data.xlsx is missing, is not a workbook, or lacks a column
Unreadable == [readable |-> FALSE, rows |-> <<>>]

OneTask == <<Task("Automatable", "Primary", <<<<"routine_work">>>>)>>

MainRows ==
    {Raw(1, <<"a", "x", "p", "A">>, <<299>>, <<500>>, TaskList(OneTask)),
     Raw(2, <<"b", "x", "p", "B">>, <<600>>, <<500>>, BadJson)}

MainFiles == {Unreadable} \cup {Sheet(rows) : rows \in SeqsUpTo(MainRows, MaxMainRows)}

RiskRows ==
    {Raw(1, <<"a", "x", "p", c>>, auto, <<500>>, NotAList) :
        c \in {"A", "B"}, auto \in {<<299>>, <<300>>, <<600>>, <<>>}}

RiskFiles == {Sheet(rows) : rows \in SeqsUpTo(RiskRows, MaxRiskRows)}

\* Sheets of up to MaxJobs rows, the i-th titled i, each in category A or B
JobsFiles ==
    {Sheet([i \in 1..n |-> Raw(i, <<"a", "x", "p", cat[i]>>, <<500>>, <<500>>, NotAList)]) :
        n \in 0..MaxJobs, cat \in [1..MaxJobs -> {"A", "B"}]}

TreeRows ==
    {Raw(1, l, auto, <<500>>, NotAList) :
        l \in {<<"a", "x", "p", "A">>, <<"a", "x", "p", "B">>, <<"a", "y", "p", "A">>,
               <<"b", "x", "p", "A">>, <<"a", NaN, NaN, NaN>>, <<"a", "x", "p", NaN>>},
        auto \in {<<800>>, <<200>>}}

TreeFiles == {Sheet(rows) : rows \in SeqsUpTo(TreeRows, MaxTreeRows)}

TaskPayloads ==
    {NotAList,
     TaskList(<<Task("Automatable", "Primary", <<<<"routine_work">>>>),
                Task("Not Automatable", "secondary", <<>>)>>),
     TaskList(<<Task("Not Automatable", "primary", <<<<"human_judgement">>>>)>>),
     TaskList(<<Task("Automatable", "ancillary", <<<<"Routine_Work">>>>),
                Task("Automatable", "other", <<<<>>>>)>>),
     TaskList(<<Task("Automatable", Absent, <<<<"routine_work">>>>)>>),
     TaskList(<<Task("Not Automatable", Absent, <<>>)>>)}

TaskRows ==
    {Raw(1, <<"a", "x", "p", c>>, <<500>>, <<500>>, payload) :
        c \in {"A", "B", NaN}, payload \in TaskPayloads}

TaskFiles == {Sheet(rows) : rows \in SeqsUpTo(TaskRows, MaxTaskRows)}

----------------------------------------------------------------------------
(* Requests *)

FilterRequests(categories, levels) ==
    {[category |-> c, level |-> l] : c \in categories, l \in levels}

JobsRequests(categories, levels, pages, per_pages) ==
    {[category |-> c, level |-> l, fetch_all |-> f, page |-> p, per_page |-> pp] :
        c \in categories, l \in levels, f \in BOOLEAN, p \in pages, pp \in per_pages}

MainRequests == FilterRequests({NoCategory, "A"}, {<<>>, <<5>>})

MainJobsRequests ==
    JobsRequests({NoCategory, "A"}, {<<>>, <<5>>}, {<<>>, <<2>>}, {<<>>})

MainTitles == {1, 9}

RiskRequests == FilterRequests({NoCategory, "A", "B", "a"}, {<<>>, <<1>>, <<5>>})

PagedRequests ==
    {r \in JobsRequests({NoCategory, "A"}, {<<>>, <<5>>},
                        {<<>>} \cup {<<p>> : p \in 0..MaxPage},
                        {<<>>} \cup {<<pp>> : pp \in 0..MaxPerPage}) :
        r.fetch_all => r.page = <<>> /\ r.per_page = <<>>}

TaskRequests == FilterRequests({NoCategory, "A", "a"}, {<<>>, <<1>>, <<5>>})

----------------------------------------------------------------------------
(* Specifications *)

InitWith(files) ==
    /\ file \in files
    /\ job_data = None
    /\ pc = [t \in Threads |-> "idle"]
    /\ df = [t \in Threads |-> <<>>]
    /\ ret = "none"
    /\ loadCount = 0
    /\ resp = NoResponse

\* job_data.xlsx is outside the process: it may be replaced at any time
SourceChange ==
    /\ file' \in MainFiles \ {file}
    /\ UNCHANGED <<job_data, pc, df, ret, loadCount, resp>>

\* load_job_data, called by the page routes (lines 37 and 43) on a request thread
load_job_data(t) == LoadCheck(t) \/ LoadRead(t) \/ LoadAssign(t)

Init == InitWith(MainFiles)

Next ==
    \/ \E t \in Threads : load_job_data(t)
    \/ SourceChange
    \/ get_stats
    \/ get_available_levels
    \/ \E req \in MainRequests : get_categories(req)
    \/ \E req \in MainRequests : get_risk_distribution(req)
    \/ \E req \in MainJobsRequests : get_jobs(req)
    \/ \E title \in MainTitles : get_job_detail(title)
    \/ \E req \in MainRequests : get_task_analysis(req)
    \/ \E req \in MainRequests : get_automation_matrix(req)
    \/ get_hierarchy_tree_data
    \/ Respond

Spec == Init /\ [][Next]_vars

\* The specifications below serve the requests from one thread, over a source
\* that does not change

InitRisk == InitWith(RiskFiles)

NextRisk ==
    \/ load_job_data(1)
    \/ \E req \in RiskRequests : get_risk_distribution(req)
    \/ Respond

SpecRisk == InitRisk /\ [][NextRisk]_vars

InitJobs == InitWith(JobsFiles)

NextJobs ==
    \/ load_job_data(1)
    \/ \E req \in PagedRequests : get_jobs(req)
    \/ Respond

SpecJobs == InitJobs /\ [][NextJobs]_vars

InitTree == InitWith(TreeFiles)

NextTree ==
    \/ load_job_data(1)
    \/ get_hierarchy_tree_data
    \/ Respond

SpecTree == InitTree /\ [][NextTree]_vars

InitTasks == InitWith(TaskFiles)

NextTasks ==
    \/ load_job_data(1)
    \/ \E req \in TaskRequests : get_task_analysis(req)
    \/ \E req \in TaskRequests : get_automation_matrix(req)
    \/ Respond

SpecTasks == InitTasks /\ [][NextTasks]_vars

----------------------------------------------------------------------------
(* Properties *)

IsNoData(r) == r.status = 500 /\ r.error = "No data available"

Answered(op) == resp.op = op /\ ~IsNoData(resp)

RECURSIVE SumFn(_)
SumFn(f) ==
    IF DOMAIN f = {} THEN 0
    ELSE LET x == CHOOSE x \in DOMAIN f : TRUE
         IN  f[x] + SumFn([y \in DOMAIN f \ {x} |-> f[y]])

QueryOps ==
    {"stats", "levels", "categories", "risk_distribution", "jobs", "job_detail",
     "task_analysis", "automation_matrix", "hierarchy_tree"}

\* C1: as long as the record store is not loaded (no load was attempted, or
\* every load so far has failed), every response of a query handler is the
\* "No data available" error.
C1_NoDataUntilLoaded ==
    ~AlreadyLoaded(job_data) =>
        \/ resp = NoResponse
        \/ resp.op \in QueryOps /\ IsNoData(resp)

\* A load has failed, the store is still not loaded, and the hierarchy query
\* answered with the no-data error
C1_Witness ==
    /\ ~AlreadyLoaded(job_data)
    /\ ret = "False"
    /\ resp.op = "hierarchy_tree" /\ IsNoData(resp)

\* C2: the read-and-assign of the dataset is performed at most once, whatever
\* the interleaving of the threads calling load_job_data, and once the store
\* is loaded no later step changes the stored collection.
C2_LoadedAtMostOnce ==
    /\ [](loadCount <= 1)
    /\ [][AlreadyLoaded(job_data) => job_data' = job_data]_vars

LevelOps == {"categories", "risk_distribution", "jobs", "task_analysis", "automation_matrix"}

\* C3: each handler that takes a level answers a level outside 1-4 with the
\* caller error (400), never with a result computed over some records.  It is
\* stated for the requests that also name a category, over a store that holds
\* records: there the level is what selects the view.
C3_UnknownLevelIsCallerError ==
    (resp.op \in LevelOps /\ ~IsNoData(resp) /\ ~LevelKnown(LevelArg(resp.req))
        /\ resp.req.category # NoCategory /\ loadCount = 1 /\ job_data.rows # <<>>)
        => resp.status = 400

\* C4: with the store loaded, the job-detail lookup of a title that matches no
\* record answers 404 "Job not found", and the lookup of a title that matches
\* a record answers with that record.
C4_UnknownTitleNotFound ==
    (Answered("job_detail") /\ loadCount = 1) =>
        IF \E i \in DOMAIN job_data.rows : job_data.rows[i].title = resp.req
        THEN resp.status = 200 /\ resp.body.Job_Title = resp.req
        ELSE resp.status = 404

\* The rows of the store a request with a known level (or no category) selects
Selected(req) ==
    {i \in DOMAIN job_data.rows :
        req.category # NoCategory => job_data.rows[i].l[LevelArg(req)] = req.category}

\* C5: the risk distribution counts every record of the view in exactly one
\* bin: low below 30.0, medium from 30.0 to below 60.0, high from 60.0; the
\* three counts add up to total, which is the number of records of the view.
C5_RiskBinsPartition ==
    Answered("risk_distribution") =>
        LET b == resp.body
            auto(i) == job_data.rows[i].auto
            sel == Selected(resp.req)
        IN  /\ resp.status = 200
            /\ b.low_risk + b.medium_risk + b.high_risk = b.total
            /\ (resp.req.category = NoCategory \/ LevelKnown(LevelArg(resp.req))) =>
                 /\ b.total = Cardinality(sel)
                 /\ b.low_risk = Cardinality({i \in sel : auto(i) < 300})
                 /\ b.medium_risk = Cardinality({i \in sel : 300 <= auto(i) /\ auto(i) < 600})
                 /\ b.high_risk = Cardinality({i \in sel : auto(i) >= 600})

\* A filtered view holding a 29.9, a 30.0 and a 60.0, counted one per bin
C5_Witness ==
    /\ Answered("risk_distribution")
    /\ resp.req.category = "A" /\ resp.req.level = <<>>
    /\ {job_data.rows[i].auto : i \in Selected(resp.req)} = {299, 300, 600}
    /\ resp.body = [low_risk |-> 1, medium_risk |-> 1, high_risk |-> 1, total |-> 3]

Titles(rows) == [i \in DOMAIN rows |-> rows[i].Job_Title]

Min(a, b) == IF a < b THEN a ELSE b

\* The pages 1..k of a view concatenated, k being the first page without more
RECURSIVE PagesFrom(_, _, _)
PagesFrom(view, page, per_page) ==
    LET body == JobsPage(view, [level |-> <<>>, page |-> <<page>>, per_page |-> <<per_page>>])
    IN  Titles(body.jobs)
        \o (IF body.has_more THEN PagesFrom(view, page + 1, per_page) ELSE <<>>)

\* C6: for page >= 1 and per_page >= 1 the jobs list is the records of the
\* view at positions [(page-1)*per_page, min(page*per_page, n)), in view
\* order, and has_more is true exactly when page*per_page < n; so the pages
\* 1, 2, ... up to the first without more hold every record once, in order.
C6_Pagination ==
    (Answered("jobs") /\ ~resp.req.fetch_all
        /\ PageArg(resp.req) >= 1 /\ PerPageArg(resp.req) >= 1) =>
        LET view == FilteredData(job_data.rows, resp.req)
            n == Len(view)
            page == PageArg(resp.req)
            per_page == PerPageArg(resp.req)
            first == (page - 1) * per_page
            last == Min(page * per_page, n)
        IN  /\ resp.status = 200
            /\ Len(resp.body.jobs) = (IF last > first THEN last - first ELSE 0)
            /\ \A k \in DOMAIN resp.body.jobs :
                    resp.body.jobs[k].Job_Title = view[first + k].title
            /\ resp.body.has_more = (page * per_page < n)
            /\ \A pp \in 1..MaxPerPage :
                    PagesFrom(view, 1, pp) = [i \in DOMAIN view |-> view[i].title]

\* Seven records in the view and per_page 4: page 2 holds the last three
C6_Witness ==
    /\ Answered("jobs") /\ ~resp.req.fetch_all
    /\ Len(FilteredData(job_data.rows, resp.req)) = 7
    /\ resp.req.category = "A"
    /\ PageArg(resp.req) = 2 /\ PerPageArg(resp.req) = 4
    /\ Titles(resp.body.jobs) = <<5, 6, 7>>
    /\ resp.body.has_more = FALSE

\* The weighted roll-up at node p of a returned tree: job_count is the sum of
\* the children's, value is within half a tenth of the count-weighted mean of
\* the children's values, and both are 0 when the total weight is 0
RolledUpAt(tree, p) ==
    LET cs == {q \in DOMAIN tree : Len(q) = Len(p) + 1 /\ SubSeq(q, 1, Len(p)) = p}
        known == {q \in cs : tree[q].has}
        W == SumFn([q \in known |-> tree[q].job_count])
        S == SumFn([q \in known |-> tree[q].value * tree[q].job_count])
    IN  /\ known = cs
        /\ tree[p].has
        /\ tree[p].job_count = W
        /\ IF W > 0 THEN 2 * Abs(tree[p].value * W - S) <= W ELSE tree[p].value = 0

\* C7: in the returned tree every non-leaf node, the root included, has
\* job_count equal to the sum of its children's job_count and value equal to
\* their count-weighted mean rounded to one decimal; a node of total weight
\* zero reports value 0 and job_count 0.
C7_RollupWeightedMean ==
    Answered("hierarchy_tree") =>
        \A p \in DOMAIN resp.body : ~resp.body[p].is_leaf => RolledUpAt(resp.body, p)

\* The same, for the nodes that have a child: this much holds of every tree
RollupWhereChildren ==
    Answered("hierarchy_tree") =>
        \A p \in DOMAIN resp.body :
            (\E q \in DOMAIN resp.body : Len(q) = Len(p) + 1 /\ SubSeq(q, 1, Len(p)) = p)
                => RolledUpAt(resp.body, p)

\* Leaves (80.0, 2 jobs) and (20.0, 1 job) under one parent: the parent is 60.0
RollupWhereChildren_Witness ==
    /\ Answered("hierarchy_tree")
    /\ {<<"a", "x", "p", "A">>, <<"a", "x", "p", "B">>} \subseteq DOMAIN resp.body
    /\ resp.body[<<"a", "x", "p", "A">>] =
         [has |-> TRUE, value |-> 800, job_count |-> 2, is_leaf |-> TRUE]
    /\ resp.body[<<"a", "x", "p", "B">>] =
         [has |-> TRUE, value |-> 200, job_count |-> 1, is_leaf |-> TRUE]
    /\ resp.body[<<"a", "x", "p">>].value = 600

\* The first k level names of a row are all present
HasPrefix(row, k) == \A j \in 1..k : row.l[j] # NaN

\* C8: a record whose name is missing at level k creates no node at level k or
\* deeper, and is still counted in the nodes of the levels above k: every
\* node's path is the present prefix of some record, and the node of every
\* such prefix counts all the records that have the prefix.
C8_MissingLevelStillCounted ==
    (Answered("hierarchy_tree") /\ loadCount = 1) =>
        LET rows == job_data.rows
            tree == resp.body
            Prefix(i, k) == SubSeq(rows[i].l, 1, k)
        IN  /\ \A p \in DOMAIN tree \ {<<>>} :
                  \E i \in DOMAIN rows : HasPrefix(rows[i], Len(p)) /\ Prefix(i, Len(p)) = p
            /\ \A i \in DOMAIN rows : \A k \in LevelColumns :
                  HasPrefix(rows[i], k) =>
                      /\ Prefix(i, k) \in DOMAIN tree
                      /\ tree[Prefix(i, k)].has
                      /\ tree[Prefix(i, k)].job_count =
                           Cardinality({j \in DOMAIN rows :
                                          HasPrefix(rows[j], k) /\ Prefix(j, k) = Prefix(i, k)})

\* The level-4 categories of a view that have a task
CategoriesWithTasks(view) ==
    {c \in Categories(view, 4) : \E i \in DOMAIN view : view[i].l[4] = c /\ view[i].tasks # <<>>}

\* The tasks of the rows of category c at level 4
TasksOf(view, c) ==
    LET In(r) == r.l[4] = c
    IN  Flatten([i \in DOMAIN SelectSeq(view, In) |-> SelectSeq(view, In)[i].tasks])

\* The quadrant the 50% thresholds give, from the counts
QuadrantOf(tasks) ==
    LET Auto(t) == t.flag = "Automatable"
        Primary(t) == t.imp \in {"primary", "Primary", "PRIMARY"}
        primary == SelectSeq(tasks, Primary)
        overallHigh == 2 * Len(SelectSeq(tasks, Auto)) >= Len(tasks)
        primaryHigh == primary # <<>> /\ 2 * Len(SelectSeq(primary, Auto)) >= Len(primary)
    IN  CASE ~overallHigh /\ primaryHigh -> "upper_left"
          [] overallHigh /\ primaryHigh -> "upper_right"
          [] ~overallHigh /\ ~primaryHigh -> "lower_left"
          [] overallHigh /\ ~primaryHigh -> "lower_right"

MatrixIsRight(view, entries) ==
    /\ {entries[i].category : i \in DOMAIN entries} = CategoriesWithTasks(view)
    /\ \A i, j \in DOMAIN entries : entries[i].category = entries[j].category => i = j
    /\ \A i \in DOMAIN entries :
          entries[i].quadrant = QuadrantOf(TasksOf(view, entries[i].category))

\* C9: the automation matrix has exactly one entry for each level-4 category
\* of the view that has a task, none for a category without tasks, and each
\* entry's quadrant is the one the 50% thresholds on (overall%, primary%)
\* give, primary% being 0 without primary tasks.
C9_MatrixEntries ==
    Answered("automation_matrix") =>
        /\ resp.status = 200
        /\ MatrixIsRight(FilteredData(job_data.rows, resp.req), resp.body)

\* The same, for the requests the handler answers: this much holds
MatrixWhenAnswered ==
    (Answered("automation_matrix") /\ resp.status = 200) =>
        MatrixIsRight(FilteredData(job_data.rows, resp.req), resp.body)

\* A category at exactly 50% overall with its one primary task automatable is
\* upper_right, and a fully automatable one without primary tasks lower_right
MatrixWhenAnswered_Witness ==
    /\ Answered("automation_matrix") /\ resp.status = 200
    /\ Len(resp.body) = 2
    /\ resp.body[1].quadrant = "upper_right" /\ resp.body[1].overall_automation_pct = 500
    /\ resp.body[2].quadrant = "lower_right" /\ resp.body[2].primary_tasks = 0

\* C10: for a view with at least one task, task analysis reports an
\* automation percentage for each of primary, secondary and ancillary:
\* automatable/total*100 of the class to one decimal, and 0 for a class
\* without tasks, which is reported and not omitted.  It is stated for the
\* requests the handler answers with a result.
C10_EveryClassReported ==
    (Answered("task_analysis") /\ resp.status = 200
        /\ AllTasks(FilteredData(job_data.rows, resp.req)) # <<>>) =>
        \A t \in {"primary", "secondary", "ancillary"} :
            LET tasks == AllTasks(FilteredData(job_data.rows, resp.req))
                Auto(x) == x.flag = "Automatable"
                OfClass(x) == x.imp # Absent /\ Lower(x.imp) = t
                class == SelectSeq(tasks, OfClass)
                a == Len(SelectSeq(class, Auto))
            IN  /\ t \in DOMAIN resp.body.automation_by_type
                /\ LET pct == resp.body.automation_by_type[t].automation_percentage
                   IN  IF class = <<>> THEN pct = 0
                       ELSE 2 * Abs(pct * Len(class) - a * 1000) <= Len(class)

====
